---- MODULE Spec2Model ----
(***************************************************************************)
(* A model of read_mdout.MDOutParser: the line scanner that turns an AMBER *)
(* mdout log into a parameter mapping, per-key time-series arrays and two  *)
(* summary mappings.  Lines, fields and value tokens are strings, handled  *)
(* character by character the way the source's regular expressions and    *)
(* conversions handle them.                                                *)
(***************************************************************************)
EXTENDS Integers, Sequences, FiniteSets, TLC

(***************************************************************************)
(* Characters and strings.                                                 *)
(***************************************************************************)
Ch(s, i) == SubSeq(s, i, i)

From(s, i) == SubSeq(s, i, Len(s))

DigitChars == "0123456789"

UpperChars == "ABCDEFGHIJKLMNOPQRSTUVWXYZ"

LowerChars == "abcdefghijklmnopqrstuvwxyz"

Digit == {Ch(DigitChars, i) : i \in 1..Len(DigitChars)}

Letter == {Ch(UpperChars, i) : i \in 1..Len(UpperChars)}
            \cup {Ch(LowerChars, i) : i \in 1..Len(LowerChars)}

Whitespace == {" ", "\t", "\n"}

DigitVal(c) == (CHOOSE i \in 1..Len(DigitChars) : Ch(DigitChars, i) = c) - 1

lower_ch(c) ==
    IF \E i \in 1..Len(UpperChars) : Ch(UpperChars, i) = c
    THEN Ch(LowerChars, CHOOSE i \in 1..Len(UpperChars) : Ch(UpperChars, i) = c)
    ELSE c

RECURSIVE lower(_)
lower(s) == IF s = "" THEN "" ELSE lower_ch(Ch(s, 1)) \o lower(Tail(s))

startswith(s, p) == Len(p) <= Len(s) /\ SubSeq(s, 1, Len(p)) = p

\* Python's  p in s
Contains(s, p) == \E i \in 1..(Len(s) - Len(p) + 1) : SubSeq(s, i, i + Len(p) - 1) = p

\* The first index >= i of s that holds no character of class cls (Len(s)+1
\* when the run reaches the end): where a greedy  cls*  started at i stops.
RECURSIVE RunEnd(_, _, _)
RunEnd(s, i, cls) ==
    IF i <= Len(s) /\ Ch(s, i) \in cls THEN RunEnd(s, i + 1, cls) ELSE i

RECURSIVE RunStart(_, _, _)
RunStart(s, j, cls) ==
    IF j >= 1 /\ Ch(s, j) \in cls THEN RunStart(s, j - 1, cls) ELSE j

strip(s) ==
    LET a == RunEnd(s, 1, Whitespace)
        b == RunStart(s, Len(s), Whitespace)
    IN  IF a > b THEN "" ELSE SubSeq(s, a, b)

RECURSIVE join(_, _)
join(words, sep) ==
    IF words = <<>> THEN ""
    ELSE IF Len(words) = 1 THEN words[1]
    ELSE words[1] \o sep \o join(Tail(words), sep)

(***************************************************************************)
(* The class attributes: patterns and defaults.                            *)
(***************************************************************************)
block_start == " NSTEP"

initial_chunksize == 128

\* re.compile(r'   \d+\.'): the index of the '.' that ends the match, 0 when
\* the line does not start with the pattern.
NewSectionEnd(line) ==
    IF startswith(line, "   ")
    THEN LET j == RunEnd(line, 4, Digit)
         IN  IF j > 4 /\ Ch(line, j) = "." THEN j ELSE 0
    ELSE 0

re_new_section(line) == NewSectionEnd(line) > 0

re_sim_params_begin(line) ==
    /\ NewSectionEnd(line) > 0
    /\ startswith(From(line, NewSectionEnd(line) + 1), "  CONTROL  DATA  FOR  THE  RUN")

re_time_series_begin(line) ==
    /\ NewSectionEnd(line) > 0
    /\ startswith(From(line, NewSectionEnd(line) + 1), "  RESULTS")

\* re_is_float.search(valuetxt): r'\.|inf|nan', ignoring case, anywhere.
re_is_float(valuetxt) ==
    \/ Contains(valuetxt, ".")
    \/ Contains(lower(valuetxt), "inf")
    \/ Contains(lower(valuetxt), "nan")

\* re_is_bool.match(valuetxt): r'true|false', ignoring case, at the start.
re_is_bool(valuetxt) ==
    \/ startswith(lower(valuetxt), "true")
    \/ startswith(lower(valuetxt), "false")

\* re_space_equals.sub(' = ', line) from index i on: every match of
\* r'\s*=\s*' (leftmost, greedy) becomes ' = '.
RECURSIVE re_space_equals_sub(_, _)
re_space_equals_sub(line, i) ==
    IF i > Len(line) THEN ""
    ELSE LET j == RunEnd(line, i, Whitespace)
         IN  IF j <= Len(line) /\ Ch(line, j) = "="
             THEN " = " \o re_space_equals_sub(line, RunEnd(line, j + 1, Whitespace))
             ELSE Ch(line, i) \o re_space_equals_sub(line, i + 1)

\* re_split_line.split(line): r'\s*,\s*|\s+'.  i scans, start is where the
\* current piece began; empty pieces are kept, as re.split keeps them.
RECURSIVE re_split_line(_, _, _)
re_split_line(line, i, start) ==
    IF i > Len(line) THEN << SubSeq(line, start, Len(line)) >>
    ELSE LET j == RunEnd(line, i, Whitespace)
             end == IF j <= Len(line) /\ Ch(line, j) = ","
                    THEN RunEnd(line, j + 1, Whitespace)
                    ELSE j
         IN  IF end > i
             THEN << SubSeq(line, start, i - 1) >> \o re_split_line(line, end, end)
             ELSE re_split_line(line, i + 1, start)

\* re_split_pair.split(text): r'\s*=\s*'.
RECURSIVE re_split_pair(_, _, _)
re_split_pair(text, i, start) ==
    IF i > Len(text) THEN << SubSeq(text, start, Len(text)) >>
    ELSE LET j == RunEnd(text, i, Whitespace)
         IN  IF j <= Len(text) /\ Ch(text, j) = "="
             THEN LET end == RunEnd(text, j + 1, Whitespace)
                  IN  << SubSeq(text, start, i - 1) >> \o re_split_pair(text, end, end)
             ELSE re_split_pair(text, i + 1, start)

\* The lookbehind of re_split_timeseries_line at index i: the character
\* before i is a digit that is itself not preceded by '-' or a letter.
SplitLookbehind(text, i) ==
    /\ i >= 2
    /\ Ch(text, i - 1) \in Digit
    /\ (i >= 3 => Ch(text, i - 2) \notin ({"-"} \cup Letter))

\* re_split_timeseries_line.split(text): r'(?<=(?<!-|[A-Za-z])\d)\s*,?\s*'.
\* The separator may match the empty string; re.split of this (Python 2)
\* interpreter never splits on an empty match and moves on one character.
RECURSIVE re_split_timeseries_line(_, _, _)
re_split_timeseries_line(text, i, start) ==
    IF i > Len(text) THEN << SubSeq(text, start, Len(text)) >>
    ELSE LET j == RunEnd(text, i, Whitespace)
             k == IF j <= Len(text) /\ Ch(text, j) = "," THEN j + 1 ELSE j
             end == RunEnd(text, k, Whitespace)
         IN  IF SplitLookbehind(text, i) /\ end > i
             THEN << SubSeq(text, start, i - 1) >>
                      \o re_split_timeseries_line(text, end, end)
             ELSE re_split_timeseries_line(text, i + 1, start)

(***************************************************************************)
(* Values.  A Python value is a record: t is its type ("int", "float",     *)
(* "bool", "str"); an int is n; a float is the decimal n * 10^e with n not *)
(* a multiple of 10 (0 is n = 0, e = 0) or, with s = "inf", "-inf" or      *)
(* "nan", a special; a bool is n \in {0, 1}; a str is s.                   *)
(***************************************************************************)
MkInt(n) == [t |-> "int", n |-> n, e |-> 0, s |-> ""]

MkBool(b) == [t |-> "bool", n |-> IF b THEN 1 ELSE 0, e |-> 0, s |-> ""]

MkStr(s) == [t |-> "str", n |-> 0, e |-> 0, s |-> s]

MkSpecial(s) == [t |-> "float", n |-> 0, e |-> 0, s |-> s]

RECURSIVE MkFloat(_, _)
MkFloat(n, e) ==
    IF n = 0 THEN [t |-> "float", n |-> 0, e |-> 0, s |-> ""]
    ELSE IF n % 10 = 0 THEN MkFloat(n \div 10, e + 1)
    ELSE [t |-> "float", n |-> n, e |-> e, s |-> ""]

\* The outcome of a conversion or of a parsing step: err is "" and val the
\* result, or err names the exception raised.
Ok(v) == [err |-> "", val |-> v]

Raise(e) == [err |-> e, val |-> <<>>]

\* The number a string of digits writes.
RECURSIVE DigitsVal(_, _)
DigitsVal(s, acc) ==
    IF s = "" THEN acc ELSE DigitsVal(Tail(s), 10 * acc + DigitVal(Ch(s, 1)))

\* A numeric literal's optional sign: where its digits start, and its sign.
NumStart(s) == IF s # "" /\ Ch(s, 1) \in {"+", "-"} THEN 2 ELSE 1

SignOf(s) == IF s # "" /\ Ch(s, 1) = "-" THEN -1 ELSE 1

\* An optional sign and at least one digit, nothing else.
IsIntLiteral(s) == NumStart(s) <= Len(s) /\ RunEnd(s, NumStart(s), Digit) = Len(s) + 1

IntLiteralVal(s) == SignOf(s) * DigitsVal(From(s, NumStart(s)), 0)

\* int(text), base 10: surrounding whitespace, an optional sign, digits.
IntOf(s) == IF IsIntLiteral(s) THEN Ok(MkInt(IntLiteralVal(s))) ELSE Raise("ValueError")

int(text) == IntOf(strip(text))

\* The exponent part x (what follows 'e') of a float whose digits write the
\* number m * 10^e.
FloatExponent(x, m, e) ==
    IF IsIntLiteral(x) THEN Ok(MkFloat(m, e + IntLiteralVal(x))) ELSE Raise("ValueError")

\* A decimal literal u: its integer part ends before index i1, its fraction
\* is u[p .. i2-1] (p = i1 without a point).
FloatDigits(u, sg, i1, p, i2) ==
    IF (i1 - 1) + (i2 - p) = 0 THEN Raise("ValueError")
    ELSE IF i2 = Len(u) + 1
    THEN Ok(MkFloat(sg * DigitsVal(SubSeq(u, 1, i1 - 1) \o SubSeq(u, p, i2 - 1), 0), p - i2))
    ELSE IF Ch(u, i2) \in {"e", "E"}
    THEN FloatExponent(From(u, i2 + 1),
                       sg * DigitsVal(SubSeq(u, 1, i1 - 1) \o SubSeq(u, p, i2 - 1), 0),
                       p - i2)
    ELSE Raise("ValueError")

FloatFraction(u, sg, i1, p) == FloatDigits(u, sg, i1, p, RunEnd(u, p, Digit))

FloatPoint(u, sg, i1) ==
    FloatFraction(u, sg, i1, IF i1 <= Len(u) /\ Ch(u, i1) = "." THEN i1 + 1 ELSE i1)

\* The literal u after its sign sg: inf, infinity or nan in any case, or a
\* decimal with an optional exponent.
FloatUnsigned(u, sg) ==
    IF lower(u) \in {"inf", "infinity"} THEN Ok(MkSpecial(IF sg = -1 THEN "-inf" ELSE "inf"))
    ELSE IF lower(u) = "nan" THEN Ok(MkSpecial("nan"))
    ELSE FloatPoint(u, sg, RunEnd(u, 1, Digit))

FloatOf(s) == FloatUnsigned(From(s, NumStart(s)), SignOf(s))

\* float(text): surrounding whitespace, an optional sign, then a literal;
\* anything else raises ValueError.
float(text) == FloatOf(strip(text))

\* type_overrides.get(key, default_type)(vtext): NSTEP is an int, every
\* other key the default type, float.
type_overrides(key, vtext) == IF key = "NSTEP" THEN int(vtext) ELSE float(vtext)

(***************************************************************************)
(* Dictionaries are functions on their key set.                            *)
(***************************************************************************)
EmptyDict == <<>>

\* d[key] = value
DictSet(d, key, value) ==
    [k \in (DOMAIN d) \cup {key} |-> IF k = key THEN value ELSE d[k]]

\* d.update(other)
DictUpdate(d, other) ==
    [k \in (DOMAIN d) \cup (DOMAIN other) |-> IF k \in DOMAIN other THEN other[k] ELSE d[k]]

(***************************************************************************)
(* _parse_keyvalue_line and _make_keyvalue_dict.                           *)
(***************************************************************************)
RECURSIVE DropEmpty(_)
DropEmpty(words) ==
    IF words = <<>> THEN <<>>
    ELSE IF strip(words[1]) = "" THEN DropEmpty(Tail(words))
    ELSE << strip(words[1]) >> \o DropEmpty(Tail(words))

\* deque(ifilter(None, imap(str.strip, re_split_line.split(line)))) of the
\* line with its '=' spaced out.
Fields(line) == DropEmpty(re_split_line(re_space_equals_sub(line, 1), 1, 1))

\* The  while field != '='  loop: key_fields collects fields up to the next
\* '=' ; popleft on an empty deque raises IndexError.
RECURSIVE KeyLoop(_, _, _)
KeyLoop(key_fields, field, fields) ==
    IF field = "=" THEN Ok([key_fields |-> key_fields, fields |-> fields])
    ELSE IF fields = <<>> THEN Raise("IndexError")
    ELSE KeyLoop(Append(key_fields, field), Head(fields), Tail(fields))

\* The  while(fields)  loop; PairValue is lines 85-87, after the key loop
\* ended with outcome k.
RECURSIVE PairLoop(_, _)
RECURSIVE PairValue(_, _)
\* The loop without the test for a field in parentheses.
PairLoopAll(fields, kvpairs) ==
    IF fields = <<>> THEN Ok(kvpairs)
    ELSE PairValue(KeyLoop(<<>>, Head(fields), Tail(fields)), kvpairs)

PairLoop(fields, kvpairs) ==
    IF fields = <<>> THEN Ok(kvpairs)
    ELSE IF startswith(Head(fields), "(") THEN Ok(kvpairs)
    ELSE PairValue(KeyLoop(<<>>, Head(fields), Tail(fields)), kvpairs)

PairValue(k, kvpairs) ==
    IF k.err # "" THEN Raise(k.err)
    ELSE IF k.val.fields = <<>> THEN Raise("IndexError")
    ELSE PairLoop(Tail(k.val.fields),
                  Append(kvpairs, << join(k.val.key_fields, " "), Head(k.val.fields) >>))

_parse_keyvalue_line(line) ==
    IF Contains(line, "=") THEN PairLoop(Fields(line), <<>>) ELSE Ok(<<>>)

\* lines 106-109: the integer, or the text itself when int() raised.
IntOrText(r, valuetxt) == IF r.err = "" THEN r ELSE Ok(MkStr(valuetxt))

\* The value of one pair, as lines 97-109 infer it.
InferValue(valuetxt) ==
    IF re_is_float(valuetxt) THEN float(valuetxt)
    ELSE IF re_is_bool(valuetxt) THEN Ok(MkBool(lower(valuetxt) = "true"))
    ELSE IntOrText(int(valuetxt), valuetxt)

\* The  for (key,valuetxt) in pairs  loop; StorePair is line 110, with v the
\* outcome of the inference.
RECURSIVE MakeDictLoop(_, _)
RECURSIVE StorePair(_, _, _)
MakeDictLoop(pairs, kvdict) ==
    IF pairs = <<>> THEN Ok(kvdict)
    ELSE IF startswith(Head(pairs)[1], "|") THEN MakeDictLoop(Tail(pairs), kvdict)
    ELSE StorePair(InferValue(Head(pairs)[2]), pairs, kvdict)

StorePair(v, pairs, kvdict) ==
    IF v.err # "" THEN Raise(v.err)
    ELSE MakeDictLoop(Tail(pairs), DictSet(kvdict, Head(pairs)[1], v.val))

_make_keyvalue_dict(pairs) == MakeDictLoop(pairs, EmptyDict)

(***************************************************************************)
(* One line of a time-series block: lines 252-255 of _parse_timeseries.    *)
(***************************************************************************)
RECURSIVE BlockPairLoop(_, _)
RECURSIVE BlockPair(_, _, _)
RECURSIVE BlockStore(_, _, _, _)
\* for pairtext in pairlist
BlockPairLoop(pairlist, blockvars) ==
    IF pairlist = <<>> THEN Ok(blockvars)
    ELSE BlockPair(re_split_pair(strip(Head(pairlist)), 1, 1), Tail(pairlist), blockvars)

\* key, vtext = ... : anything but two pieces cannot be unpacked
BlockPair(kv, rest, blockvars) ==
    IF Len(kv) # 2 THEN Raise("ValueError")
    ELSE BlockStore(kv[1], type_overrides(kv[1], kv[2]), rest, blockvars)

\* blockvars[key] = ...
BlockStore(key, v, rest, blockvars) ==
    IF v.err # "" THEN Raise(v.err)
    ELSE BlockPairLoop(rest, DictSet(blockvars, key, v.val))

ParseBlockLine(line, blockvars) ==
    BlockPairLoop(re_split_timeseries_line(strip(line), 1, 1), blockvars)

(***************************************************************************)
(* numpy arrays are sequences.  numpy.empty leaves its entries             *)
(* uninitialized: entry i is Uninit(i) until it is written, and becomes an *)
(* arbitrary value of the array's type when the array is handed back.      *)
(***************************************************************************)
Uninit(i) == [t |-> "uninit", n |-> i, e |-> 0, s |-> ""]

numpy_empty(size) == [i \in 1..size |-> Uninit(i)]

\* numpy.resize(array, (size,)): the first size entries of the array
\* repeated as often as needed.
numpy_resize(array, size) ==
    [i \in 1..size |-> array[((i - 1) % Len(array)) + 1]]

\* Growth that asks for the size the array already has.
GrownSizeSame(nblocks) == nblocks

\* int(nblocks*1.5)
GrownSize(nblocks) == (3 * nblocks) \div 2

(***************************************************************************)
(* State.                                                                  *)
(***************************************************************************)
VARIABLES
    simulation_params,      \* self.simulation_params
    time_series,            \* self.time_series
    time_series_averages,   \* self.time_series_averages
    time_series_rmsds,      \* self.time_series_rmsds
    mdout_file,             \* self.mdout_file: a file id, 0 for None
    line,                   \* self.line: << text >>, << >> for None
    files,                  \* the file objects: their lines and read position
    frame,                  \* per parse call: its position and local variables
    blocklog,               \* per parse call: the blocks it merged (history)
    ncalls                  \* the number of parse calls made

vars == << simulation_params, time_series, time_series_averages, time_series_rmsds,
           mdout_file, line, files, frame, blocklog, ncalls >>

self_vars == << simulation_params, time_series, time_series_averages, time_series_rmsds,
                mdout_file, line >>

None == << >>

Some(text) == << text >>

\* Python's truth value of a line: None and '' are false.
Truthy(l) == l # None /\ l[1] # ""

(***************************************************************************)
(* Bounds and the input streams.                                           *)
(***************************************************************************)
MaxCalls == 2

MaxLines == 4

MaxResLines == 5

LongRun == 290

MaxBlocks == 300

MaxUnits == 3

MaxBlockUnits == 2

Calls == 1..MaxCalls

CtrlHeader == "   2.  CONTROL  DATA  FOR  THE  RUN\n"

ResultsHeader == "   4.  RESULTS\n"

OtherHeader == "   5.  TIMINGS\n"

Rule == " ------\n"

Param1 == "     imin = 0, ntx    =  5\n"

Param2 == "     dt   =   0.00200, imin=1\n"

Block1 == " NSTEP =        1   Etot =    -1.5\n"

Block2 == " NSTEP =        2   Etot =     2.5\n"

More == " BOND   =       0.5\n"

BadParam == "     ntb = 2, restrt = md.rst\n"

BadBlock == " NSTEP =        3   Etot = ********\n"

StartOnly == " NSTEP\n"

BarParam == "| Flags = 1, imin = 0\n"

HeaderEq == "   5.  TIMINGS = 1\n"

MissingMid == "     ntx = , irest = 1\n"

MissingEnd == "     ntx =\n"

MissingBlock == " BOND   = \n"

BarBlock == "|E(PBS) =       0.5\n"

RECURSIVE Decimal(_)
Decimal(n) ==
    IF n < 10 THEN Ch(DigitChars, n + 1)
    ELSE Decimal(n \div 10) \o Ch(DigitChars, (n % 10) + 1)

RECURSIVE SeqsUpTo(_, _)
SeqsUpTo(S, n) ==
    IF n = 0 THEN { <<>> }
    ELSE LET shorter == SeqsUpTo(S, n - 1)
         IN  shorter \cup { Append(q, x) : q \in shorter, x \in S }

\* Any lines at all: headers, parameter lines and rules in any order.
SectionStreams ==
    SeqsUpTo({CtrlHeader, ResultsHeader, OtherHeader, Rule, Param1, Param2}, MaxLines)

\* A results section of any block lines, continuation lines and rules.
ResultStreams ==
    { << CtrlHeader, ResultsHeader >> \o r :
        r \in SeqsUpTo({Block1, Block2, More, Rule}, MaxResLines) }

\* Longer logs: a block that drops a key of the first block, a results
\* section that a later section ends, values that are no numbers.
CaseStreams ==
    { << CtrlHeader, ResultsHeader, Block1, More, Rule, Block1, Rule, Block1 >>,
      << CtrlHeader, ResultsHeader, Block1, More, Rule, Block2, Rule, Block1, Rule >>,
      << Rule, CtrlHeader, Rule, Param1, Param2, OtherHeader, Param1, ResultsHeader,
         Block1, More, Rule, Block2, More, Rule, Block2, More, Rule, Block2, More, Rule,
         OtherHeader, Block1 >>,
      << CtrlHeader, Rule, BadParam >>,
      << CtrlHeader, ResultsHeader, Block1, Rule, BadBlock >>,
      << CtrlHeader, Rule, BarParam, ResultsHeader, Block1, BarBlock, Rule,
         Block1, BarBlock, Rule, Block1, BarBlock, Rule >>,
      << CtrlHeader, Rule, Param1, ResultsHeader, Block1, HeaderEq, Rule,
         Block2, Rule, HeaderEq, Block1 >>,
      << CtrlHeader, Rule, HeaderEq, ResultsHeader >>,
      << CtrlHeader, Rule, MissingMid, ResultsHeader >>,
      << CtrlHeader, Rule, MissingEnd >>,
      << CtrlHeader, ResultsHeader, Block1, MissingBlock >> }

\* The pieces of parameter lines: assignments with a one-word key, a key of
\* two words, a key with a word in parentheses and a value in parentheses,
\* and an annotation in parentheses.  paren tells where the piece has a field
\* that begins with '('.
Units ==
    { [text |-> "ntx = 5", key |-> "ntx", value |-> "5", paren |-> "none"],
      [text |-> "Box X = 2", key |-> "Box X", value |-> "2", paren |-> "none"],
      [text |-> "Box (A) = 3", key |-> "Box (A)", value |-> "3", paren |-> "key"],
      [text |-> "ntb = (off)", key |-> "ntb", value |-> "(off)", paren |-> "value"],
      [text |-> "(restart)", key |-> "", value |-> "", paren |-> "start"] }

UnitSeqs == SeqsUpTo(Units, MaxUnits)

\* The parameter line made of the pieces us.
UnitLine(us) == "     " \o join([i \in 1..Len(us) |-> us[i].text], ", ") \o "\n"

UnitLines == { [units |-> us, text |-> UnitLine(us)] : us \in UnitSeqs }

UnitStreams == { << CtrlHeader, Rule, u.text >> : u \in UnitLines }

\* The pieces of block lines: assignments whose values are a negative
\* decimal, a decimal with an exponent, a decimal after a label that ends in
\* a digit, a negative integer and an integer with an exponent.  value is the
\* number the text of the value denotes.
BlockUnits ==
    { [text |-> "Etot = -1.5", key |-> "Etot", value |-> MkFloat(-15, -1)],
      [text |-> "1-4 NB = 2.5E-01", key |-> "1-4 NB", value |-> MkFloat(25, -2)],
      [text |-> "TEMP0 = 300.0", key |-> "TEMP0", value |-> MkFloat(3, 2)],
      [text |-> "BOND = -5", key |-> "BOND", value |-> MkFloat(-5, 0)],
      [text |-> "EKtot = 1E5", key |-> "EKtot", value |-> MkFloat(1, 5)] }

BlockUnitSeqs == SeqsUpTo(BlockUnits, MaxBlockUnits)

\* The first line of a block made of the step number and the pieces us.
BlockUnitLine(us) ==
    join(<< " NSTEP = 7" >> \o [i \in 1..Len(us) |-> us[i].text], "   ") \o "\n"

BlockUnitLines == { [units |-> us, text |-> BlockUnitLine(us)] : us \in BlockUnitSeqs }

BlockUnitStreams == { << CtrlHeader, ResultsHeader, u.text >> : u \in BlockUnitLines }

\* A long run: block i is one line followed by a rule.
LongBlocks(n) ==
    [i \in 1..(2 * n) |->
        IF i % 2 = 1
        THEN " NSTEP = " \o Decimal((i + 1) \div 2)
                \o "  Etot = -" \o Decimal(((i + 1) \div 2) % 7) \o ".5\n"
        ELSE Rule]

LongStreams == { << CtrlHeader, ResultsHeader >> \o LongBlocks(LongRun) }

\* A block-start line without '='.
SpinStreams == { << CtrlHeader, ResultsHeader, StartOnly >>,
                 << CtrlHeader, ResultsHeader, Block1, Rule, StartOnly >> }

Streams ==
    SectionStreams \cup ResultStreams \cup CaseStreams \cup UnitStreams
        \cup BlockUnitStreams
        \cup LongStreams \cup SpinStreams

\* The streams of a call that follows another on the same instance.
ReuseStreams ==
    { << CtrlHeader, ResultsHeader, Block2, Rule, Block2, Rule, Block2 >>,
      << CtrlHeader, Rule, Param1, ResultsHeader, Block1, Rule, Block2, Rule, Block1, Rule >>,
      << CtrlHeader, Param1 >> }

\* The streams of calls that run at the same time on one instance.
SharedStreams ==
    { << CtrlHeader, Rule, Param1, ResultsHeader, Block1, Rule, Block1, Rule, Block1, Rule >>,
      << Rule, CtrlHeader, Rule, Param2, ResultsHeader, Block2, Rule, Block2, Rule, Block2 >>,
      << CtrlHeader, Param1 >> }

(***************************************************************************)
(* Files.                                                                  *)
(***************************************************************************)
NoFile == [lines |-> <<>>, pos |-> 0]

\* f.readline(): the next line, '' at end of stream.
readline(f) ==
    IF files[f].pos < Len(files[f].lines) THEN files[f].lines[files[f].pos + 1] ELSE ""

\* The files after f.readline().
AfterRead(f) ==
    [files EXCEPT ![f].pos = IF @ < Len(files[f].lines) THEN @ + 1 ELSE @]

(***************************************************************************)
(* Frames.                                                                 *)
(***************************************************************************)
\* pc is where the call stands; of a call that raised, exc is the exception
\* and at where it was raised; of a call that returned, summary tells whether
\* the test of line 284 held.  owns tells that the dictionary the call made
\* at line 169 is still the one self.simulation_params refers to.
NoFrame(pc, exc) ==
    [pc |-> pc, exc |-> exc, at |-> "", mdout_file |-> 0, line |-> None, owns |-> FALSE,
     variables |-> EmptyDict, nblocks |-> 0, blockvars |-> EmptyDict, summary |-> FALSE]

Ended(c) == frame[c].pc \in {"done", "raised"}

\* The frame of a call that raised: its locals are gone.
Raised(c, exc) ==
    [frame EXCEPT ![c] = [NoFrame("raised", exc) EXCEPT !.at = frame[c].pc]]

\* What  mdout_file.readline()  raises when mdout_file is None.
ReadError(f) == IF f = 0 THEN "AttributeError" ELSE ""

\* The frames fr after call c rebound self.simulation_params (line 169): the
\* dictionary of no other call is the instance's any more.
Rebound(fr, c) ==
    [d \in Calls |-> IF d = c THEN fr[d] ELSE [fr[d] EXCEPT !.owns = FALSE]]

Init ==
    /\ simulation_params = EmptyDict
    /\ time_series = EmptyDict
    /\ time_series_averages = EmptyDict
    /\ time_series_rmsds = EmptyDict
    /\ mdout_file = 0
    /\ line = None
    /\ files = [c \in Calls |-> NoFile]
    /\ frame = [c \in Calls |-> NoFrame("idle", "")]
    /\ blocklog = [c \in Calls |-> <<>>]
    /\ ncalls = 0

(***************************************************************************)
(* parse: lines 119-120.  The call is handed a fresh file object holding   *)
(* `lines`; the file objects and frames of the calls that ended are gone.  *)
(***************************************************************************)
Start(c, lines) ==
    /\ ncalls' = c
    /\ files' = [d \in Calls |->
                    IF d = c
                    THEN [lines |-> lines, pos |-> IF lines = <<>> THEN 0 ELSE 1]
                    ELSE NoFile]
    /\ mdout_file' = c
    /\ line' = Some(IF lines = <<>> THEN "" ELSE lines[1])
    /\ frame' = [d \in Calls |->
                    IF d = c THEN NoFrame("d1_enter", "") ELSE NoFrame(frame[d].pc, "")]
    /\ blocklog' = [d \in Calls |-> <<>>]
    /\ UNCHANGED << simulation_params, time_series, time_series_averages,
                    time_series_rmsds >>

\* A call starts when every earlier call has ended.
parse(c) ==
    /\ c = ncalls + 1
    /\ frame[c].pc = "idle"
    /\ \A d \in 1..(c - 1) : Ended(d)
    /\ \E lines \in (IF c = 1 THEN Streams ELSE ReuseStreams) : Start(c, lines)

\* lines 119-120 in a call made while other calls on the instance may be
\* running: their file objects and locals stay.
Alongside(c, lines) ==
    /\ ncalls' = c
    /\ files' = [files EXCEPT ![c] = [lines |-> lines, pos |-> 1]]
    /\ mdout_file' = c
    /\ line' = Some(lines[1])
    /\ frame' = [frame EXCEPT ![c] = NoFrame("d1_enter", "")]
    /\ UNCHANGED << simulation_params, time_series, time_series_averages,
                    time_series_rmsds, blocklog >>

\* A call starts at any time, whatever the earlier calls are doing.
parse_alongside(c) ==
    /\ c = ncalls + 1
    /\ frame[c].pc = "idle"
    /\ \E lines \in SharedStreams : Alongside(c, lines)

(***************************************************************************)
(* _discard_until_matches: d1 looks for re_sim_params_begin, d2 for        *)
(* re_time_series_begin.                                                   *)
(***************************************************************************)
DiscardMatches(c, text) ==
    IF frame[c].pc = "d1_loop" THEN re_sim_params_begin(text) ELSE re_time_series_begin(text)

\* lines 60-61
discard_enter(c) ==
    /\ frame[c].pc \in {"d1_enter", "d2_enter"}
    /\ frame' = [frame EXCEPT ![c].mdout_file = mdout_file,
                              ![c].line = line,
                              ![c].pc = IF @ = "d1_enter" THEN "d1_loop" ELSE "d2_loop"]
    /\ UNCHANGED << self_vars, files, blocklog, ncalls >>

\* lines 62-63, one iteration
discard_loop(c) ==
    /\ frame[c].pc \in {"d1_loop", "d2_loop"}
    /\ Truthy(frame[c].line)
    /\ ~DiscardMatches(c, frame[c].line[1])
    /\ IF ReadError(frame[c].mdout_file) # ""
       THEN /\ frame' = Raised(c, ReadError(frame[c].mdout_file))
            /\ files' = files
       ELSE /\ frame' = [frame EXCEPT ![c].line = Some(readline(frame[c].mdout_file))]
            /\ files' = AfterRead(frame[c].mdout_file)
    /\ UNCHANGED << self_vars, blocklog, ncalls >>

\* lines 62 (the test fails) and 64
discard_exit(c) ==
    /\ frame[c].pc \in {"d1_loop", "d2_loop"}
    /\ ~(Truthy(frame[c].line) /\ ~DiscardMatches(c, frame[c].line[1]))
    /\ line' = frame[c].line
    /\ frame' = [frame EXCEPT ![c].pc = IF @ = "d1_loop" THEN "p_enter" ELSE "t_enter"]
    /\ UNCHANGED << simulation_params, time_series, time_series_averages,
                    time_series_rmsds, mdout_file, files, blocklog, ncalls >>

(***************************************************************************)
(* _parse_sim_params                                                       *)
(***************************************************************************)
\* What  assert regexp.match(line)  raises: nothing (""), AssertionError when
\* the line does not match, TypeError when the line is None.
AssertMatches(matches, l) ==
    IF l = None THEN "TypeError"
    ELSE IF matches THEN "" ELSE "AssertionError"

\* What the assert and the readline after it raise (lines 173-174, 245-246).
EnterError(matches, l, f) ==
    IF AssertMatches(matches, l) # "" THEN AssertMatches(matches, l) ELSE ReadError(f)

\* lines 169-174
sim_params_enter(c) ==
    /\ frame[c].pc = "p_enter"
    /\ simulation_params' = EmptyDict
    /\ LET exc == EnterError(line # None /\ re_sim_params_begin(line[1]), line, mdout_file)
       IN  IF exc # ""
           THEN /\ frame' = Rebound(Raised(c, exc), c)
                /\ files' = files
           ELSE /\ frame' = Rebound([frame EXCEPT ![c].mdout_file = mdout_file,
                                                  ![c].line = Some(readline(mdout_file)),
                                                  ![c].owns = TRUE,
                                                  ![c].pc = "p_loop"], c)
                /\ files' = AfterRead(mdout_file)
    /\ UNCHANGED << time_series, time_series_averages, time_series_rmsds,
                    mdout_file, line, blocklog, ncalls >>

\* make_keyvalue_dict(parse_keyvalue_line(line)), line 178's argument
MakeDictOf(pairs) == IF pairs.err # "" THEN Raise(pairs.err) ELSE _make_keyvalue_dict(pairs.val)

LineDict(text) ==
    IF Contains(text, "=") THEN MakeDictOf(_parse_keyvalue_line(text)) ELSE Ok(EmptyDict)

\* lines 177-178 on the line just read, d being its dictionary; the update
\* shows in self.simulation_params while that is the call's dictionary
SimParamsUpdate(c, text, d) ==
    IF d.err # ""
    THEN /\ frame' = Raised(c, d.err)
         /\ UNCHANGED simulation_params
    ELSE /\ frame' = [frame EXCEPT ![c].line = Some(text)]
         /\ simulation_params' = IF frame[c].owns
                                  THEN DictUpdate(simulation_params, d.val)
                                  ELSE simulation_params

\* lines 175-178, one iteration: the line is read first and parsed after
sim_params_loop(c) ==
    /\ frame[c].pc = "p_loop"
    /\ Truthy(frame[c].line)
    /\ ~re_new_section(frame[c].line[1])
    /\ SimParamsUpdate(c, readline(frame[c].mdout_file),
                       LineDict(readline(frame[c].mdout_file)))
    /\ files' = AfterRead(frame[c].mdout_file)
    /\ UNCHANGED << time_series, time_series_averages, time_series_rmsds,
                    mdout_file, line, blocklog, ncalls >>

\* The exit of a loop that reads once more before it stores the line.
sim_params_exit_late(c) ==
    /\ frame[c].pc = "p_loop"
    /\ ~(Truthy(frame[c].line) /\ ~re_new_section(frame[c].line[1]))
    /\ line' = Some(readline(frame[c].mdout_file))
    /\ files' = AfterRead(frame[c].mdout_file)
    /\ frame' = [frame EXCEPT ![c].pc = "d2_enter"]
    /\ UNCHANGED << simulation_params, time_series, time_series_averages,
                    time_series_rmsds, mdout_file, blocklog, ncalls >>

\* lines 175 (the test fails) and 179
sim_params_exit(c) ==
    /\ frame[c].pc = "p_loop"
    /\ ~(Truthy(frame[c].line) /\ ~re_new_section(frame[c].line[1]))
    /\ line' = frame[c].line
    /\ frame' = [frame EXCEPT ![c].pc = "d2_enter"]
    /\ UNCHANGED << simulation_params, time_series, time_series_averages,
                    time_series_rmsds, mdout_file, files, blocklog, ncalls >>

(***************************************************************************)
(* _parse_timeseries                                                       *)
(***************************************************************************)
\* lines 240-246
timeseries_enter(c) ==
    /\ frame[c].pc = "t_enter"
    /\ LET exc == EnterError(line # None /\ re_time_series_begin(line[1]), line, mdout_file)
       IN  IF exc # ""
           THEN /\ frame' = Raised(c, exc)
                /\ files' = files
           ELSE /\ frame' = [frame EXCEPT ![c].mdout_file = mdout_file,
                                          ![c].line = Some(readline(mdout_file)),
                                          ![c].variables = EmptyDict,
                                          ![c].nblocks = 0,
                                          ![c].pc = "t_loop"]
                /\ files' = AfterRead(mdout_file)
    /\ UNCHANGED << self_vars, blocklog, ncalls >>

\* The test of the scanning loop, line 247.
Scanning(c) == Truthy(frame[c].line) /\ ~re_new_section(frame[c].line[1])

\* lines 274-276: a line that starts no block is skipped
timeseries_skip(c) ==
    /\ frame[c].pc = "t_loop"
    /\ Scanning(c)
    /\ ~startswith(frame[c].line[1], block_start)
    /\ frame' = [frame EXCEPT ![c].line = Some(readline(frame[c].mdout_file))]
    /\ files' = AfterRead(frame[c].mdout_file)
    /\ UNCHANGED << self_vars, blocklog, ncalls >>

\* lines 248-250: a line that starts with block_start opens a block
block_begin(c) ==
    /\ frame[c].pc = "t_loop"
    /\ Scanning(c)
    /\ startswith(frame[c].line[1], block_start)
    /\ frame' = [frame EXCEPT ![c].blockvars = EmptyDict, ![c].pc = "t_block"]
    /\ UNCHANGED << self_vars, files, blocklog, ncalls >>

\* lines 255-256 for a line whose pairs gave b
BlockLineRead(c, b) ==
    IF b.err # ""
    THEN /\ frame' = Raised(c, b.err)
         /\ files' = files
    ELSE /\ frame' = [frame EXCEPT ![c].blockvars = b.val,
                                   ![c].line = Some(readline(frame[c].mdout_file))]
         /\ files' = AfterRead(frame[c].mdout_file)

\* lines 251-256, one iteration
block_line(c) ==
    /\ frame[c].pc = "t_block"
    /\ Contains(frame[c].line[1], "=")
    /\ BlockLineRead(c, ParseBlockLine(frame[c].line[1], frame[c].blockvars))
    /\ UNCHANGED << self_vars, blocklog, ncalls >>

\* Growth that allocates the larger array without copying the old one.
ResizedEmpty(variables, nblocks) ==
    [name \in DOMAIN variables |->
        IF Len(variables[name]) = nblocks
        THEN numpy_empty(GrownSize(nblocks))
        ELSE variables[name]]

\* lines 260-263: every array that is full grows
Resized(variables, nblocks) ==
    [name \in DOMAIN variables |->
        IF Len(variables[name]) = nblocks
        THEN numpy_resize(variables[name], GrownSize(nblocks))
        ELSE variables[name]]

\* lines 266-267 and 270-272: the block's values are written at index nblocks
Assigned(variables, blockvars, nblocks) ==
    [name \in DOMAIN variables |->
        IF name \in DOMAIN blockvars
        THEN [variables[name] EXCEPT ![nblocks + 1] = blockvars[name]]
        ELSE variables[name]]

Created(variables, blockvars) ==
    DictUpdate(variables, [key \in DOMAIN blockvars |-> numpy_empty(initial_chunksize)])

\* What lines 266-267 can raise: KeyError for a key that has no array,
\* IndexError for an index outside the array.
AssignErrors(variables, blockvars, nblocks) ==
    (IF DOMAIN blockvars \subseteq DOMAIN variables THEN {} ELSE {"KeyError"})
      \cup (IF \E k \in DOMAIN blockvars \cap DOMAIN variables : nblocks + 1 > Len(variables[k])
            THEN {"IndexError"} ELSE {})

\* lines 251 (the test fails) and 258-273: the block is merged
block_end(c) ==
    /\ frame[c].pc = "t_block"
    /\ ~Contains(frame[c].line[1], "=")
    /\ frame[c].nblocks < MaxBlocks
    /\ LET fr == frame[c]
           grown == IF fr.nblocks > 0 THEN Resized(fr.variables, fr.nblocks)
                    ELSE Created(fr.variables, fr.blockvars)
           errors == IF fr.nblocks > 0
                     THEN AssignErrors(grown, fr.blockvars, fr.nblocks) ELSE {}
       IN  IF errors # {}
           THEN /\ \E exc \in errors : frame' = Raised(c, exc)
                /\ UNCHANGED blocklog
           ELSE /\ frame' = [frame EXCEPT
                                ![c].variables = Assigned(grown, fr.blockvars, fr.nblocks),
                                ![c].nblocks = fr.nblocks + 1,
                                ![c].pc = "t_loop"]
                /\ blocklog' = [blocklog EXCEPT
                                  ![c] = Append(@, [vars |-> fr.blockvars,
                                                    eof |-> fr.line[1] = ""])]
    /\ UNCHANGED << self_vars, files, ncalls >>

\* The values an uninitialized entry of an array of type t may hold.
Garbage(t) ==
    IF t = "int" THEN << MkInt(0), MkInt(2) >> ELSE << MkFloat(0, 0), MkFloat(25, -1) >>

\* The uninitialized entries of the arrays: << name, entry >> pairs.
UninitSlots(variables) ==
    UNION { { << name, variables[name][i].n >> :
                i \in { j \in 1..Len(variables[name]) : variables[name][j].t = "uninit" } } :
            name \in DOMAIN variables }

\* lines 247 (the test fails) and 279-280: every array is cut to nblocks
\* entries; what was never written holds whatever the memory held.
timeseries_trim(c) ==
    /\ frame[c].pc = "t_loop"
    /\ ~Scanning(c)
    /\ LET fr == frame[c]
           trimmed == [name \in DOMAIN fr.variables |->
                          numpy_resize(fr.variables[name], fr.nblocks)]
       IN  \E g \in [UninitSlots(trimmed) -> 1..2] :
              frame' = [frame EXCEPT
                  ![c].variables =
                      [name \in DOMAIN trimmed |->
                          [i \in 1..Len(trimmed[name]) |->
                              IF trimmed[name][i].t = "uninit"
                              THEN Garbage(fr.variables[name][1].t)
                                          [g[<< name, trimmed[name][i].n >>]]
                              ELSE trimmed[name][i]]],
                  ![c].pc = "t_summary"]
    /\ UNCHANGED << self_vars, files, blocklog, ncalls >>

\* What lines 283-284 raise: KeyError without an NSTEP array, IndexError
\* when it has fewer than three entries.
SummaryError(variables) ==
    IF "NSTEP" \notin DOMAIN variables THEN "KeyError"
    ELSE IF Len(variables["NSTEP"]) < 3 THEN "IndexError"
    ELSE ""

\* line 284: nstep[-3] == nstep[-2] == nstep[-1]
LastThreeEqual(nstep) ==
    /\ nstep[Len(nstep) - 2] = nstep[Len(nstep) - 1]
    /\ nstep[Len(nstep) - 1] = nstep[Len(nstep)]

\* lines 283-292, and line 125 of parse
timeseries_summary(c) ==
    /\ frame[c].pc = "t_summary"
    /\ LET variables == frame[c].variables
           exc == SummaryError(variables)
           found == LastThreeEqual(variables["NSTEP"])
       IN  IF exc # ""
           THEN /\ frame' = Raised(c, exc)
                /\ UNCHANGED self_vars
           ELSE /\ time_series_averages' =
                      IF found
                      THEN DictUpdate(time_series_averages,
                               [k \in DOMAIN variables |-> variables[k][Len(variables[k]) - 1]])
                      ELSE time_series_averages
                /\ time_series_rmsds' =
                      IF found
                      THEN DictUpdate(time_series_rmsds,
                               [k \in DOMAIN variables |-> variables[k][Len(variables[k])]])
                      ELSE time_series_rmsds
                /\ time_series' =
                      IF found
                      THEN [k \in DOMAIN variables |->
                               numpy_resize(variables[k], Len(variables[k]) - 2)]
                      ELSE variables
                /\ line' = None
                /\ mdout_file' = 0
                /\ frame' = [frame EXCEPT ![c] = [NoFrame("done", "") EXCEPT !.summary = found]]
                /\ UNCHANGED simulation_params
    /\ UNCHANGED << files, blocklog, ncalls >>

(***************************************************************************)
(* The parser: parse calls made one after another on one instance.         *)
(***************************************************************************)
Next ==
    \E c \in Calls :
        \/ parse(c)
        \/ discard_enter(c)
        \/ discard_loop(c)
        \/ discard_exit(c)
        \/ sim_params_enter(c)
        \/ sim_params_loop(c)
        \/ sim_params_exit(c)
        \/ timeseries_enter(c)
        \/ timeseries_skip(c)
        \/ block_begin(c)
        \/ block_line(c)
        \/ block_end(c)
        \/ timeseries_trim(c)
        \/ timeseries_summary(c)

Spec == Init /\ [][Next]_vars

(***************************************************************************)
(* The parser with parse calls on one instance that run at the same time,  *)
(* each on its own stream.  A step is a stretch of one call's code that    *)
(* runs without the other call running in between.                         *)
(***************************************************************************)
NextShared ==
    \E c \in Calls :
        \/ parse_alongside(c)
        \/ discard_enter(c)
        \/ discard_loop(c)
        \/ discard_exit(c)
        \/ sim_params_enter(c)
        \/ sim_params_loop(c)
        \/ sim_params_exit(c)
        \/ timeseries_enter(c)
        \/ timeseries_skip(c)
        \/ block_begin(c)
        \/ block_line(c)
        \/ block_end(c)
        \/ timeseries_trim(c)
        \/ timeseries_summary(c)

SpecShared == Init /\ [][NextShared]_vars

(***************************************************************************)
(* The properties.  blocklog[c] lists the blocks call c merged, in order:  *)
(* the values each block gave and whether the end of the stream ended it.  *)
(***************************************************************************)
\* The call that is running or ended last has returned.
Returned(c) == c = ncalls /\ frame[c].pc = "done"

\* The blocks a line without '=' ended.
CompleteBlocks(c) == { i \in 1..Len(blocklog[c]) : ~blocklog[c][i].eof }

\* C1: when a parse call returns, every array of time_series has as many
\* entries as the results section had complete blocks, two fewer when the
\* summary was taken.
C1_LengthIsCompleteBlocks ==
    \A c \in Calls :
        Returned(c) =>
            \A k \in DOMAIN time_series :
                Len(time_series[k])
                    = Cardinality(CompleteBlocks(c)) - (IF frame[c].summary THEN 2 ELSE 0)

\* C2: a parse call never returns after a block whose keys are not the keys
\* of the first block.
C2_EveryBlockHasFirstKeys ==
    \A c \in Calls :
        Returned(c) =>
            \A i \in 1..Len(blocklog[c]) :
                DOMAIN blocklog[c][i].vars = DOMAIN blocklog[c][1].vars

\* Entry i of every array holds what block i gave for the key.
HoldsBlocks(arrays, blocks, n) ==
    \A i \in 1..n :
        \A k \in DOMAIN blocks[i].vars :
            /\ k \in DOMAIN arrays
            /\ i <= Len(arrays[k])
            /\ arrays[k][i] = blocks[i].vars[k]

\* C3: however many blocks were merged, and however often the arrays grew,
\* entry i of a key's array is the value block i gave for the key; after the
\* trim every array has exactly as many entries as blocks were merged.
C3_GrowthKeepsValues ==
    \A c \in Calls :
        frame[c].pc \in {"t_loop", "t_block", "t_summary"} =>
            /\ frame[c].nblocks = Len(blocklog[c])
            /\ HoldsBlocks(frame[c].variables, blocklog[c], frame[c].nblocks)
            /\ \A k \in DOMAIN frame[c].variables :
                  IF frame[c].pc = "t_summary"
                  THEN Len(frame[c].variables[k]) = frame[c].nblocks
                  ELSE Len(frame[c].variables[k]) >= frame[c].nblocks

\* A run trimmed after its arrays grew three times.
C3_Witness ==
    \E c \in Calls :
        /\ frame[c].pc = "t_summary"
        /\ frame[c].nblocks > GrownSize(GrownSize(initial_chunksize))
        /\ "Etot" \in DOMAIN frame[c].variables
        /\ Len(frame[c].variables["Etot"]) = frame[c].nblocks

\* C4: when a call returns with the summary taken, every array lost its
\* last two entries, the averages hold the second-to-last and the rmsds the
\* last value of every key, and both mappings have exactly the keys of
\* time_series.
C4_SummaryUniform ==
    \A c \in Calls :
        (Returned(c) /\ frame[c].summary) =>
            /\ DOMAIN time_series_averages = DOMAIN time_series
            /\ DOMAIN time_series_rmsds = DOMAIN time_series
            /\ \A k \in DOMAIN time_series :
                  Len(time_series[k]) = Len(blocklog[c]) - 2
            /\ HoldsBlocks(time_series, blocklog[c], Len(blocklog[c]) - 2)
            /\ \A k \in DOMAIN blocklog[c][Len(blocklog[c]) - 1].vars :
                  time_series_averages[k] = blocklog[c][Len(blocklog[c]) - 1].vars[k]
            /\ \A k \in DOMAIN blocklog[c][Len(blocklog[c])].vars :
                  time_series_rmsds[k] = blocklog[c][Len(blocklog[c])].vars[k]

\* C5: when a call returns without the summary taken, no array was trimmed
\* and both summary mappings are empty, whatever the calls before it did.
C5_NoSummaryLeavesEmpty ==
    \A c \in Calls :
        (Returned(c) /\ ~frame[c].summary) =>
            /\ DOMAIN time_series_averages = {}
            /\ DOMAIN time_series_rmsds = {}
            /\ \A k \in DOMAIN time_series : Len(time_series[k]) = Len(blocklog[c])

\* C6: a call whose results section had fewer than three blocks does not
\* raise at the summary test.
C6_FewBlocksReturn ==
    \A c \in Calls :
        Len(blocklog[c]) < 3 => ~(frame[c].pc = "raised" /\ frame[c].at = "t_summary")

\* C7: a block that the end of the stream cut off is not merged.
C7_CutBlockDiscarded ==
    \A c \in Calls :
        \A i \in 1..Len(blocklog[c]) : ~blocklog[c][i].eof

\* C8: a call whose stream ended before the header of a section was found
\* does not raise where the section parser checks for the header.
C8_EndOfStreamReturns ==
    \A c \in Calls :
        line = Some("") => ~(frame[c].pc = "raised" /\ frame[c].at \in {"p_enter", "t_enter"})

\* The first line from i on that is the control-data header, Len + 1 if none.
RECURSIVE HeaderFrom(_, _)
HeaderFrom(lines, i) ==
    IF i > Len(lines) THEN i
    ELSE IF re_sim_params_begin(lines[i]) THEN i
    ELSE HeaderFrom(lines, i + 1)

\* The first line from i on that is a section header, Len + 1 if none.
RECURSIVE SectionFrom(_, _)
SectionFrom(lines, i) ==
    IF i > Len(lines) THEN i
    ELSE IF re_new_section(lines[i]) THEN i
    ELSE SectionFrom(lines, i + 1)

\* The dictionaries of lines i..j-1 merged from left to right into acc.
RECURSIVE MergeLines(_, _, _, _)
MergedWith(d, acc) == IF d.err = "" THEN DictUpdate(acc, d.val) ELSE acc

MergeLines(lines, i, j, acc) ==
    IF i >= j THEN acc
    ELSE MergeLines(lines, i + 1, j, MergedWith(LineDict(lines[i]), acc))

\* The merge of every '=' line strictly between the header at h and the next
\* section header.
BetweenHeaders(lines, h) ==
    MergeLines(lines, h + 1, SectionFrom(lines, h + 1), EmptyDict)

\* C9: when the control-data section has been parsed, simulation_params is
\* the left-to-right merge of every '=' line strictly between the
\* control-data header and the next section header, the first line after the
\* header included.
C9_ParamsAreSectionMerge ==
    \A c \in Calls :
        frame[c].pc = "d2_enter" =>
            simulation_params
                = BetweenHeaders(files[c].lines, HeaderFrom(files[c].lines, 1))

\* No value text of the pairs makes the inference raise.
AllInferred(pairs) ==
    \A i \in 1..Len(pairs.val) : InferValue(pairs.val[i][2]).err = ""

\* C10: the type inference raises on no value text of a line the parameter
\* parser is about to parse.
C10_InferenceNeverRaises ==
    \A c \in Calls :
        (frame[c].pc = "p_loop" /\ Truthy(frame[c].line)
                                /\ ~re_new_section(frame[c].line[1])) =>
            AllInferred(_parse_keyvalue_line(readline(frame[c].mdout_file)))

\* The keys of a mapping that begin with '|'.
BarKeys(d) == { k \in DOMAIN d : startswith(k, "|") }

\* C11: no key that begins with '|' is in simulation_params, in time_series
\* or in a summary mapping, whichever section the key appeared in.
C11_NoBarKeys ==
    /\ BarKeys(simulation_params) = {}
    /\ BarKeys(time_series) = {}
    /\ BarKeys(time_series_averages) = {}
    /\ BarKeys(time_series_rmsds) = {}

\* Some '=' of the text is followed, blanks aside, by nothing, by ',' or by
\* another '=': the key before it has no value.
MissingValue(text) ==
    \E i \in 1..Len(text) :
        /\ Ch(text, i) = "="
        /\ \/ RunEnd(text, i + 1, Whitespace) > Len(text)
           \/ Ch(text, RunEnd(text, i + 1, Whitespace)) \in {",", "="}

\* C12: a parameter line or a block line in which a key has no value makes
\* the parser raise when it parses the line.
C12_MissingValueRaises ==
    \A c \in Calls :
        /\ (frame[c].pc = "p_loop" /\ Truthy(frame[c].line)
                                   /\ ~re_new_section(frame[c].line[1])
                                   /\ MissingValue(readline(frame[c].mdout_file))) =>
               LineDict(readline(frame[c].mdout_file)).err # ""
        /\ (frame[c].pc = "t_block" /\ MissingValue(frame[c].line[1])) =>
               ParseBlockLine(frame[c].line[1], frame[c].blockvars).err # ""

\* The lines of the stream handed to call c, and '' for its end.
OwnLines(c) == { Some(files[c].lines[i]) : i \in 1..Len(files[c].lines) } \cup { Some("") }

\* C13: while a call scans, the stream handle it reads from is the stream it
\* was handed and its current line is a line of that stream, whatever other
\* calls on the instance do.
C13_ScanningStateIsOwn ==
    \A c \in Calls :
        frame[c].pc \in {"d1_loop", "p_loop", "d2_loop", "t_loop", "t_block"} =>
            /\ frame[c].mdout_file = c
            /\ frame[c].line \in OwnLines(c)

\* The first line from i on that is the results header, Len + 1 if none.
RECURSIVE ResultsFrom(_, _)
ResultsFrom(lines, i) ==
    IF i > Len(lines) THEN i
    ELSE IF re_time_series_begin(lines[i]) THEN i
    ELSE ResultsFrom(lines, i + 1)

\* Line i is a line of a block: a block-start line at or after s begins a run
\* of lines with '=' that reaches line i.
InBlock(lines, s, i) ==
    \E j \in s..i :
        /\ startswith(lines[j], block_start)
        /\ \A k \in j..i : Contains(lines[k], "=")

\* The least of a set of line numbers, n if there is none.
FirstOf(S, n) == IF S = {} THEN n ELSE CHOOSE i \in S : \A j \in S : i <= j

\* The first section header from s on that is no line of a block.
HeaderOutsideBlock(lines, s) ==
    FirstOf({ i \in s..Len(lines) : re_new_section(lines[i]) /\ ~InBlock(lines, s, i) },
            Len(lines) + 1)

\* Where the stages of a parse of lines stop: the control-data header, the
\* header that ends the parameter section, the results header.
StopOfDiscard1(lines) == HeaderFrom(lines, 1)

StopOfParams(lines) == SectionFrom(lines, StopOfDiscard1(lines) + 1)

StopOfDiscard2(lines) == ResultsFrom(lines, StopOfParams(lines))

\* The current line l of call c is line i of its stream, or '' when i is past
\* the end, and nothing after it has been read.
StoppedAt(c, l, i) ==
    IF i <= Len(files[c].lines)
    THEN l = Some(files[c].lines[i]) /\ files[c].pos = i
    ELSE l = Some("") /\ files[c].pos = Len(files[c].lines)

\* What C14 says of the stages before the time-series parser.
StagesStopped(c) ==
    /\ frame[c].pc = "p_enter" => StoppedAt(c, line, StopOfDiscard1(files[c].lines))
    /\ frame[c].pc = "d2_enter" => StoppedAt(c, line, StopOfParams(files[c].lines))
    /\ frame[c].pc = "t_enter" => StoppedAt(c, line, StopOfDiscard2(files[c].lines))

\* C14 as stated: when a stage ends, the current line is the first line at or
\* after the stage's start that matches the stage's stop pattern (the end of
\* the stream when none does), and no line after it has been read.
C14_StopIsFirstMatch ==
    \A c \in Calls :
        /\ StagesStopped(c)
        /\ frame[c].pc = "t_summary" =>
              StoppedAt(c, frame[c].line,
                        SectionFrom(files[c].lines, StopOfDiscard2(files[c].lines) + 1))

\* C14, amended: the same, but the time-series parser stops at the first
\* section header that is no line of a block; a header with '=' that follows
\* the lines of a block is read as one more line of the block.
C14_StopLineNotConsumed ==
    \A c \in Calls :
        /\ StagesStopped(c)
        /\ frame[c].pc = "t_summary" =>
              StoppedAt(c, frame[c].line,
                        HeaderOutsideBlock(files[c].lines, StopOfDiscard2(files[c].lines) + 1))

\* The time-series parser stopped at a section header that has lines after
\* it, a results header having ended the parameter section directly.
C14_Witness ==
    \E c \in Calls :
        /\ frame[c].pc = "t_summary"
        /\ frame[c].nblocks > 0
        /\ Truthy(frame[c].line)
        /\ files[c].pos < Len(files[c].lines)
        /\ StopOfParams(files[c].lines) = StopOfDiscard2(files[c].lines)

\* The pairs of the pieces us up to the first piece whose field in
\* parentheses stands at one of the places in stops.
RECURSIVE PairsUntil(_, _)
PairsUntil(us, stops) ==
    IF us = <<>> THEN <<>>
    ELSE IF Head(us).paren \in stops THEN <<>>
    ELSE << << Head(us).key, Head(us).value >> >> \o PairsUntil(Tail(us), stops)

AnyParen == {"start", "key", "value"}

ParenAtKeyStart == {"start"}

\* The line the parameter parser of call c is about to parse is text.
AboutToParse(c, text) ==
    /\ frame[c].pc = "p_loop"
    /\ Truthy(frame[c].line)
    /\ ~re_new_section(frame[c].line[1])
    /\ readline(frame[c].mdout_file) = text

\* C15 as stated: of a parameter line the extractor returns the pairs
\* completed before the first field that begins with '(', wherever that
\* field stands.
C15_ParenEndsLineAnywhere ==
    \A c \in Calls : \A u \in UnitLines :
        AboutToParse(c, u.text) =>
            _parse_keyvalue_line(u.text) = Ok(PairsUntil(u.units, AnyParen))

\* C15, amended: the extractor returns the pairs completed before the first
\* field that begins with '(' and stands where a key would begin; a field in
\* parentheses inside a key is part of the key, one after '=' is the value.
C15_ParenAtKeyStartEndsLine ==
    \A c \in Calls : \A u \in UnitLines :
        AboutToParse(c, u.text) =>
            _parse_keyvalue_line(u.text) = Ok(PairsUntil(u.units, ParenAtKeyStart))

\* A line with an assignment, an annotation in parentheses and another
\* assignment has been parsed: only the first assignment was stored.
C15_Witness ==
    \E c \in Calls :
        /\ frame[c].pc = "p_loop"
        /\ frame[c].line = Some("     ntx = 5, (restart), Box X = 2\n")
        /\ DOMAIN simulation_params = {"ntx"}

\* The variables of a block whose first line is made of the pieces us.
RECURSIVE AssignedBy(_, _)
AssignedBy(us, blockvars) ==
    IF us = <<>> THEN blockvars
    ELSE AssignedBy(Tail(us), DictSet(blockvars, Head(us).key, Head(us).value))

\* C16: a block line made of well-formed assignments with numeric values
\* (negative values and exponent forms included) is split into exactly those
\* assignments: the block gets each key with the number its value denotes.
C16_SplitsEveryAssignment ==
    \A c \in Calls : \A u \in BlockUnitLines :
        (frame[c].pc = "t_block" /\ frame[c].line = Some(u.text)) =>
            ParseBlockLine(u.text, frame[c].blockvars)
                = Ok(AssignedBy(u.units, DictSet(frame[c].blockvars, "NSTEP", MkInt(7))))

\* C17: the parse terminates on every finite stream, because every iteration
\* of the time-series scanning loop consumes at least one line: a call never
\* has merged more blocks than it has read lines from its stream.
C17_EveryBlockConsumesALine ==
    \A c \in Calls : frame[c].nblocks <= files[c].pos

\* Call c is about to merge a block into arrays that exist.
AboutToMerge(c) ==
    /\ frame[c].pc = "t_block"
    /\ ~Contains(frame[c].line[1], "=")
    /\ frame[c].nblocks > 0

\* C18: when the values of a completed block are written at index nblocks,
\* the array of every key holds more than nblocks entries: the arrays start
\* with initial_chunksize entries, an array grows exactly when it holds
\* nblocks entries, and no write is ever outside its array.
C18_WriteIndexInBounds ==
    \A c \in Calls :
        /\ ~(frame[c].exc = "IndexError" /\ frame[c].at = "t_block")
        /\ \A k \in DOMAIN frame[c].variables :
              frame[c].pc \in {"t_loop", "t_block"} =>
                  /\ Len(frame[c].variables[k]) >= initial_chunksize
                  /\ Len(frame[c].variables[k]) >= frame[c].nblocks
        /\ AboutToMerge(c) =>
              \A k \in DOMAIN frame[c].variables :
                  /\ Len(Resized(frame[c].variables, frame[c].nblocks)[k]) > frame[c].nblocks
                  /\ Len(frame[c].variables[k]) > frame[c].nblocks =>
                         Resized(frame[c].variables, frame[c].nblocks)[k] = frame[c].variables[k]

\* The block merged when the arrays were full for the second time has been
\* written: the arrays grew again and the block's value is in its place.
C18_Witness ==
    \E c \in Calls :
        /\ frame[c].pc = "t_loop"
        /\ frame[c].nblocks = GrownSize(initial_chunksize) + 1
        /\ "Etot" \in DOMAIN frame[c].variables
        /\ Len(frame[c].variables["Etot"]) = GrownSize(GrownSize(initial_chunksize))
        /\ frame[c].variables["Etot"][frame[c].nblocks].t = "float"

====
